---- MODULE Spec2Model ----
(***************************************************************************)
(* DropboxService (src/internet/dropboxservice.cpp): the credential pair,  *)
(* the recursive directory walk driven by asynchronous replies, the        *)
(* content-URL fetch, the tag-read request and the blocking URL lookup.    *)
(*                                                                         *)
(* Everything runs on one Qt event loop: a slot runs to completion, so     *)
(* one action is one slot invocation.  The only suspended context is a     *)
(* caller of GetStreamingUrlFromSongId, which waits in a nested event      *)
(* loop (variable loops) while other slots keep running.                   *)
(*                                                                         *)
(* A QString is modelled as the sequence of its "/"-separated segments:   *)
(* "" is << >>, "/a/b.mp3" is <<"a", "b.mp3">>, "audio/mpeg" is            *)
(* <<"audio", "mpeg">>.  Tokens and secrets are plain strings.             *)
(***************************************************************************)
EXTENDS Integers, Sequences, FiniteSets, Bags, TLC

VARIABLES
  access_token_,         \* DropboxService::access_token_
  access_token_secret_,  \* DropboxService::access_token_secret_
  settings,              \* QSettings group "Dropbox": key -> value
  replies,               \* bag of the QNetworkReply objects that exist, but
                         \* for those a caller of WaitForSignal holds
  tag_replies,           \* bag of the TagReaderClient::ReplyType objects that exist
  loops,                 \* stack of the calls waiting in WaitForSignal, each
                         \* with its url and its reply
  sent,                  \* history: bag of <<kind, path>>, a copy for every
                         \* request issued, every entry point called and
                         \* every entry a handled listing showed
  last                   \* the last slot run: its name, its input, its effects in order

vars == <<access_token_, access_token_secret_, settings, replies, tag_replies,
          loops, sent, last>>

----------------------------------------------------------------------------
(* Bounds of the model.                                                    *)

\* Listing replies handled, and entry points called, in one behaviour
\* against an arbitrary remote.
MaxListings == 1
\* Entries in one listing response.
MaxEntries == 2
\* Calls of the entry points (Connect, AuthenticationFinished,
\* GetStreamingUrlFromSongId) in one behaviour.
MaxStarts == 2
\* Calls of the entry points in one behaviour of a single walk.
MaxWalks == 1
\* Calls of GetStreamingUrlFromSongId in one behaviour of the lookups.
MaxLookups == 2
\* Listing replies handled in one behaviour of the walk of a cyclic tree.
MaxRounds == 5

----------------------------------------------------------------------------
(* Program constants.                                                      *)

kSettingsGroup == "Dropbox"
kMetadataEndpoint == "https://api.dropbox.com/1/metadata/dropbox/"
kMediaEndpoint == "https://api.dropbox.com/1/media/dropbox/"

----------------------------------------------------------------------------
(* QVariant, as QJson produces it, and the conversions the code applies.   *)

Invalid == [type |-> "Invalid"]
QBool(b) == [type |-> "Bool", v |-> b]
QStr(s) == [type |-> "String", v |-> s]
\* A qlonglong n = hi * 2^31 + lo with 0 <= lo < 2^31.
QNum(hi, lo) == [type |-> "LongLong", hi |-> hi, lo |-> lo]
QList(l) == [type |-> "List", v |-> l]
QMap(m) == [type |-> "Map", v |-> m]

EmptyMap == << >>
EmptyString == << >>

\* QVariantMap::operator[] on a map read as an rvalue: the value, or an
\* invalid QVariant when the key is absent.
Value(map, key) == IF key \in DOMAIN map THEN map[key] ELSE Invalid

toMap(q) == IF q.type = "Map" THEN q.v ELSE EmptyMap
toList(q) == IF q.type = "List" THEN q.v ELSE << >>
\* The keys read with toString() hold a string or are absent in every
\* response of the model; a Bool converts to "true" / "false".
toString(q) ==
  CASE q.type = "String" -> q.v
    [] q.type = "Bool" -> IF q.v THEN <<"true">> ELSE <<"false">>
    [] OTHER -> EmptyString
\* QVariant::toBool: a Bool is itself, a number is true when non-zero, a
\* string is false when empty, "0" or "false".
toBool(q) ==
  CASE q.type = "Bool" -> q.v
    [] q.type = "LongLong" -> ~(q.hi = 0 /\ q.lo = 0)
    [] q.type = "String" -> q.v \notin {EmptyString, <<"0">>, <<"false">>}
    [] OTHER -> FALSE
\* QVariant::toInt on a qlonglong: int(qlonglong), the low 32 bits as a
\* signed int.  Bit 31 is the lowest bit of hi.
toInt(q) ==
  CASE q.type = "LongLong" ->
         IF q.hi % 2 = 0 THEN q.lo ELSE q.lo - 2147483647 - 1
    [] q.type = "Bool" -> IF q.v THEN 1 ELSE 0
    [] OTHER -> 0
\* QVariant::toUrl: a string converts to the URL it spells, anything else to
\* the empty URL.
toUrl(q) == IF q.type = "String" THEN q.v ELSE EmptyString

\* What a finished reply holds: wellformed is FALSE for a failed request
\* (no data) and for data that is not JSON; json is the document otherwise.
Malformed == [wellformed |-> FALSE, json |-> Invalid]
Json(q) == [wellformed |-> TRUE, json |-> q]
\* QJson::Parser::parse(reply): the document, or an invalid QVariant.
parse(body) == IF body.wellformed THEN body.json ELSE Invalid

\* QFileInfo(path).fileName(): what follows the last "/".
fileName(path) == IF path = EmptyString THEN EmptyString ELSE <<path[Len(path)]>>

----------------------------------------------------------------------------
(* Credentials and the Authorization header.                               *)

has_credentials == access_token_ # ""

\* DropboxAuthenticator::GenerateAuthorisationHeader(token, secret): the
\* OAuth header carries the token and a signature made from the secret.
DropboxAuthenticator_GenerateAuthorisationHeader(token, token_secret) ==
  [scheme |-> "OAuth", oauth_token |-> token, oauth_signature |-> token_secret]

\* Mutant: the members are not passed on.
GenerateAuthorisationHeaderOfNothing ==
  DropboxAuthenticator_GenerateAuthorisationHeader("", "")

GenerateAuthorisationHeader ==
  DropboxAuthenticator_GenerateAuthorisationHeader(access_token_,
                                                   access_token_secret_)

----------------------------------------------------------------------------
(* Effects: what a slot does, in program order.                            *)

\* network_->get / network_->post of a request, with the closure connected
\* to the reply's finished() signal and the data bound into the closure.
Send(req, slot, data) == [e |-> "send", req |-> req, slot |-> slot, data |-> data]
ShowSettingsDialog == [e |-> "ShowSettingsDialog"]
setValue(key, value) == [e |-> "setValue", key |-> key, value |-> value]
emit(signal) == [e |-> "emit", signal |-> signal]
qLog(msg) == [e |-> "qLog", msg |-> msg]
deleteLater(object) == [e |-> "deleteLater", object |-> object]
ReadCloudFile(url, filename, size, mime_type, data) ==
  [e |-> "ReadCloudFile", url |-> url, filename |-> filename, size |-> size,
   mime_type |-> mime_type, slot |-> "ReadTagsFinished", data |-> data]

\* Mutant: the request carries the header of no credentials.
RequestFileListUnsigned(path) ==
  Send([verb |-> "GET",
        url |-> [endpoint |-> kMetadataEndpoint, path |-> path],
        Authorization |-> DropboxAuthenticator_GenerateAuthorisationHeader("", "")],
       "RequestFileListFinished", EmptyMap)

RequestFileList(path) ==
  Send([verb |-> "GET",
        url |-> [endpoint |-> kMetadataEndpoint, path |-> path],
        Authorization |-> GenerateAuthorisationHeader],
       "RequestFileListFinished", EmptyMap)

FetchContentUrl(url) ==
  [verb |-> "POST",
   url |-> [endpoint |-> kMediaEndpoint, path |-> url.path],
   Authorization |-> GenerateAuthorisationHeader]

\* Mutant: a prefix test instead of the two exact strings.
IsAudioMimeType(mime_type) == mime_type # EmptyString /\ mime_type[1] = "audio"

IsSupportedMimeType(mime_type) ==
  mime_type = <<"audio", "ogg">> \/ mime_type = <<"audio", "mpeg">>

\* Mutant: a directory is listed twice.
ListItemListsTwice(c) ==
  LET item == toMap(c)
      directory == toBool(Value(item, "is_dir"))
      path == toString(Value(item, "path"))
  IN IF directory
       THEN <<RequestFileList(path), RequestFileList(path)>>
       ELSE IF IsSupportedMimeType(toString(Value(item, "mime_type")))
         THEN <<qLog(<<"Found:", path>>),
                Send(FetchContentUrl([scheme |-> "dropbox", path |-> path]),
                     "FetchContentUrlFinished", item)>>
         ELSE << >>

\* Mutant: a visited set, a path is listed once.
ListItemVisitedOnce(c) ==
  LET item == toMap(c)
      directory == toBool(Value(item, "is_dir"))
      path == toString(Value(item, "path"))
  IN IF directory
       THEN IF CopiesIn(<<"list", path>>, sent) > 0 THEN << >>
            ELSE <<RequestFileList(path)>>
       ELSE IF IsSupportedMimeType(toString(Value(item, "mime_type")))
         THEN <<qLog(<<"Found:", path>>),
                Send(FetchContentUrl([scheme |-> "dropbox", path |-> path]),
                     "FetchContentUrlFinished", item)>>
         ELSE << >>

\* Mutant: directories are not descended into.
ListItemNoRecursion(c) ==
  LET item == toMap(c)
      path == toString(Value(item, "path"))
  IN IF toBool(Value(item, "is_dir"))
       THEN << >>
       ELSE IF IsSupportedMimeType(toString(Value(item, "mime_type")))
         THEN <<qLog(<<"Found:", path>>),
                Send(FetchContentUrl([scheme |-> "dropbox", path |-> path]),
                     "FetchContentUrlFinished", item)>>
         ELSE << >>

\* The body of the foreach of RequestFileListFinished for one item.
ListItem(c) ==
  LET item == toMap(c)
      directory == toBool(Value(item, "is_dir"))
      path == toString(Value(item, "path"))
  IN IF directory
       THEN <<RequestFileList(path)>>
       ELSE IF IsSupportedMimeType(toString(Value(item, "mime_type")))
         THEN <<qLog(<<"Found:", path>>),
                Send(FetchContentUrl([scheme |-> "dropbox", path |-> path]),
                     "FetchContentUrlFinished", item)>>
         ELSE << >>

RECURSIVE ListItems(_)
ListItems(contents) ==
  IF contents = << >> THEN << >>
  ELSE ListItem(Head(contents)) \o ListItems(Tail(contents))

\* Mutant: a response without entries is reported and asked for again.
RequestFileListFinishedRetries(reply, body) ==
  LET response == toMap(parse(body))
      contents == toList(Value(response, "contents"))
  IN IF contents = << >>
       THEN <<deleteLater(reply), emit("Error"),
              RequestFileList(reply.req.url.path)>>
       ELSE <<deleteLater(reply)>> \o ListItems(contents)

\* The effects of RequestFileListFinished(reply) on a reply with this body.
RequestFileListFinishedEffects(reply, body) ==
  LET response == toMap(parse(body))
      contents == toList(Value(response, "contents"))
  IN <<deleteLater(reply)>> \o ListItems(contents)

\* Mutant: the temporary URL is logged, and no tag-read is requested.
FetchContentUrlFinishedNoTagRead(reply, body) ==
  LET response == toMap(parse(body))
      data == reply.data
      info == toString(Value(data, "path"))
  IN <<deleteLater(reply),
       qLog(<<toUrl(Value(response, "url")), fileName(info),
              toInt(Value(data, "bytes")),
              toString(Value(data, "mime_type"))>>)>>

\* The effects of FetchContentUrlFinished(reply, data).
FetchContentUrlFinishedEffects(reply, body) ==
  LET response == toMap(parse(body))
      data == reply.data
      info == toString(Value(data, "path"))
  IN <<deleteLater(reply),
       qLog(<<toUrl(Value(response, "url")), fileName(info),
              toInt(Value(data, "bytes")),
              toString(Value(data, "mime_type"))>>),
       ReadCloudFile(toUrl(Value(response, "url")), fileName(info),
                     toInt(Value(data, "bytes")),
                     toString(Value(data, "mime_type")), response)>>

----------------------------------------------------------------------------
(* Committing the effects of a slot to the state.                          *)

Creates(e) == e.e \in {"send", "ReadCloudFile"}
Created(eff) == SelectSeq(eff, Creates)

\* The reply object a send creates: pending, with its closure.
Reply(e) == [req |-> e.req, slot |-> e.slot, data |-> e.data,
             finished |-> FALSE, body |-> Malformed]
TagReply(e) == [url |-> e.url, filename |-> e.filename, size |-> e.size,
                mime_type |-> e.mime_type, data |-> e.data, finished |-> FALSE]

RECURSIVE NewReplies(_)
NewReplies(eff) ==
  IF eff = << >> THEN EmptyBag
  ELSE (IF Head(eff).e = "send" THEN SetToBag({Reply(Head(eff))}) ELSE EmptyBag)
         (+) NewReplies(Tail(eff))

RECURSIVE NewTagReplies(_)
NewTagReplies(eff) ==
  IF eff = << >> THEN EmptyBag
  ELSE (IF Head(eff).e = "ReadCloudFile"
          THEN SetToBag({TagReply(Head(eff))}) ELSE EmptyBag)
         (+) NewTagReplies(Tail(eff))

RECURSIVE Deleted(_)
Deleted(eff) ==
  IF eff = << >> THEN EmptyBag
  ELSE (IF Head(eff).e = "deleteLater"
          THEN SetToBag({Head(eff).object}) ELSE EmptyBag)
         (+) Deleted(Tail(eff))

RECURSIVE Store(_, _)
Store(s, eff) ==
  IF eff = << >> THEN s
  ELSE Store(IF Head(eff).e = "setValue"
               THEN [s EXCEPT ![Head(eff).key] = Head(eff).value] ELSE s,
             Tail(eff))

\* How a request is counted in the history.
Key(e) ==
  IF e.e = "ReadCloudFile" THEN <<"tags", e.filename>>
  ELSE <<CASE e.slot = "RequestFileListFinished" -> "list"
           [] e.slot = "FetchContentUrlFinished" -> "fetch"
           [] OTHER -> "resolve",
         e.req.url.path>>

RECURSIVE Count(_, _)
Count(bag, c) ==
  IF c = << >> THEN bag
  ELSE Count(bag (+) SetToBag({Key(Head(c))}), Tail(c))

\* What a document says, read off the JSON itself: the entries of a listing,
\* whether an entry is a directory, whether it is a file of a supported type.
EntriesOf(body) ==
  IF /\ body.wellformed
     /\ body.json.type = "Map"
     /\ "contents" \in DOMAIN body.json.v
     /\ body.json.v["contents"].type = "List"
  THEN body.json.v["contents"].v ELSE << >>
IsDirEntry(c) == "is_dir" \in DOMAIN c.v /\ c.v["is_dir"] = QBool(TRUE)
IsAudioEntry(c) ==
  /\ ~IsDirEntry(c)
  /\ "mime_type" \in DOMAIN c.v
  /\ c.v["mime_type"] \in {QStr(<<"audio", "ogg">>), QStr(<<"audio", "mpeg">>)}
PathOf(c) == c.v["path"].v

\* The history also counts what the handled listings showed: a copy of
\* <<"dir", path>> for every directory entry and of <<"file", path>> for
\* every file of a supported type.
RECURSIVE Shown(_)
Shown(contents) ==
  IF contents = << >> THEN EmptyBag
  ELSE (CASE IsDirEntry(Head(contents)) ->
               SetToBag({<<"dir", PathOf(Head(contents))>>})
          [] IsAudioEntry(Head(contents)) ->
               SetToBag({<<"file", PathOf(Head(contents))>>})
          [] OTHER -> EmptyBag)
         (+) Shown(Tail(contents))
Discovered(op, in) ==
  IF op = "RequestFileListFinished" THEN Shown(EntriesOf(in.body)) ELSE EmptyBag

\* The calls of the entry points are counted too.
EntryPoints ==
  {"Connect", "AuthenticationFinished", "GetStreamingUrlFromSongId:WaitForSignal"}
Called(op) ==
  IF op \in EntryPoints THEN SetToBag({<<"call", <<op>>>>}) ELSE EmptyBag

\* The effects are computed once, then applied.
Commit(op, in, effects) ==
  \E eff \in {effects} :
    /\ replies' = (replies (-) Deleted(eff)) (+) NewReplies(eff)
    /\ tag_replies' = tag_replies (+) NewTagReplies(eff)
    /\ settings' = Store(settings, eff)
    /\ sent' = Count(sent, Created(eff)) (+) Called(op) (+) Discovered(op, in)
    /\ last' = [op |-> op, in |-> in, eff |-> eff]

----------------------------------------------------------------------------
(* The slots and entry points.                                             *)

\* The token pairs and the name an authenticator hands over: QStrings, which
\* may be empty.
CredPairs == {<<"", "">>, <<"t2", "s2">>}
DisplayNames == {"A"}
\* What the settings may hold when the service is constructed.
StoredPairs == {<<"", "">>, <<"t1", "s1">>}

\* The constructor: the members are read from the settings.
Init ==
  /\ \E p \in StoredPairs :
       settings = [access_token |-> p[1], access_token_secret |-> p[2],
                   name |-> IF p[1] = "" THEN "" ELSE "A"]
  /\ access_token_ = settings["access_token"]
  /\ access_token_secret_ = settings["access_token_secret"]
  /\ replies = EmptyBag
  /\ tag_replies = EmptyBag
  /\ loops = << >>
  /\ sent = EmptyBag
  /\ last = [op |-> "DropboxService", in |-> << >>, eff |-> << >>]

\* Mutant: the has_credentials() test is missing.
ConnectAlwaysLists == <<RequestFileList(EmptyString)>>

\* Mutant: Connect() does nothing while requests are in flight.
ConnectOnlyWhenIdle ==
  IF has_credentials
    THEN IF replies = EmptyBag THEN <<RequestFileList(EmptyString)>> ELSE << >>
    ELSE <<ShowSettingsDialog>>

ConnectEffects ==
  IF has_credentials THEN <<RequestFileList(EmptyString)>>
  ELSE <<ShowSettingsDialog>>

Connect ==
  /\ Commit("Connect", << >>, ConnectEffects)
  /\ UNCHANGED <<access_token_, access_token_secret_, loops>>

\* Runs after the two members are assigned (lines 58-59): the effects read
\* the new members.
\* Mutant: Connected is emitted before the settings are written.
AuthenticationFinishedNotifiesFirst(authenticator) ==
  <<deleteLater(authenticator),
    emit("Connected"),
    setValue("access_token", access_token_),
    setValue("access_token_secret", access_token_secret_),
    setValue("name", authenticator.name),
    RequestFileList(EmptyString)>>

AuthenticationFinishedEffects(authenticator) ==
  <<deleteLater(authenticator),
    setValue("access_token", access_token_),
    setValue("access_token_secret", access_token_secret_),
    setValue("name", authenticator.name),
    emit("Connected"),
    RequestFileList(EmptyString)>>

\* Mutant: only the token is replaced.
AuthenticationFinishedTokenOnly(authenticator) ==
  /\ access_token_' = authenticator.access_token
  /\ access_token_secret_' = access_token_secret_
  /\ Commit("AuthenticationFinished", authenticator,
            AuthenticationFinishedEffects(authenticator)')
  /\ UNCHANGED loops

AuthenticationFinished(authenticator) ==
  /\ access_token_' = authenticator.access_token
  /\ access_token_secret_' = authenticator.access_token_secret
  /\ Commit("AuthenticationFinished", authenticator,
            AuthenticationFinishedEffects(authenticator)')
  /\ UNCHANGED loops

\* finished() of a listing reply: the closure runs the slot.
RequestFileListFinished(reply, body) ==
  /\ BagIn(reply, replies)
  /\ reply.slot = "RequestFileListFinished" /\ ~reply.finished
  /\ Commit("RequestFileListFinished", [reply |-> reply, body |-> body],
            RequestFileListFinishedEffects(reply, body))
  /\ UNCHANGED <<access_token_, access_token_secret_, loops>>

\* finished() of a content-fetch reply issued by the walk.
FetchContentUrlFinished(reply, body) ==
  /\ BagIn(reply, replies)
  /\ reply.slot = "FetchContentUrlFinished" /\ ~reply.finished
  /\ Commit("FetchContentUrlFinished", [reply |-> reply, body |-> body],
            FetchContentUrlFinishedEffects(reply, body))
  /\ UNCHANGED <<access_token_, access_token_secret_, loops>>

\* Finished(bool) of a tag reply: the slot only logs the message.
ReadTagsFinished(reply) ==
  /\ BagIn(reply, tag_replies) /\ ~reply.finished
  /\ tag_replies' = (tag_replies (-) SetToBag({reply}))
                      (+) SetToBag({[reply EXCEPT !.finished = TRUE]})
  /\ last' = [op |-> "ReadTagsFinished", in |-> [reply |-> reply],
              eff |-> <<qLog(<<"message", reply.filename>>)>>]
  /\ UNCHANGED <<access_token_, access_token_secret_, settings, replies, loops,
                 sent>>

\* GetStreamingUrlFromSongId up to WaitForSignal: the request is posted and
\* a nested event loop is entered, connected to the reply's finished().  The
\* reply is the local variable of this call: it lives in the call's frame.
GetStreamingUrlFromSongIdEffects(url) ==
  <<Send(FetchContentUrl(url), "QEventLoop::quit", EmptyMap)>>

GetStreamingUrlFromSongIdEnter(url) ==
  /\ loops' = Append(loops,
                     [url |-> url,
                      reply |-> Reply(GetStreamingUrlFromSongIdEffects(url)[1])])
  /\ sent' = Count(sent, GetStreamingUrlFromSongIdEffects(url))
               (+) Called("GetStreamingUrlFromSongId:WaitForSignal")
  /\ last' = [op |-> "GetStreamingUrlFromSongId:WaitForSignal",
              in |-> [url |-> url], eff |-> GetStreamingUrlFromSongIdEffects(url)]
  /\ UNCHANGED <<access_token_, access_token_secret_, settings, replies,
                 tag_replies>>

\* finished() of the reply the k-th nested loop waits for: the loop is told
\* to quit.
WaitForSignalQuit(k, body) ==
  /\ k \in DOMAIN loops
  /\ ~loops[k].reply.finished
  /\ loops' = [loops EXCEPT ![k].reply.finished = TRUE, ![k].reply.body = body]
  /\ last' = [op |-> "QEventLoop::quit", in |-> [loop |-> k, body |-> body],
              eff |-> << >>]
  /\ UNCHANGED <<access_token_, access_token_secret_, settings, replies,
                 tag_replies, sent>>

\* Mutant: the URL of the request is returned, not the url of the response.
StreamingUrlOfRequest(reply) == reply.req.url.path

\* The value GetStreamingUrlFromSongId returns for the reply it waited for.
StreamingUrl(reply) == toUrl(Value(toMap(parse(reply.body)), "url"))

\* Mutant: the call that returns parses the reply of the outermost call.
GetStreamingUrlFromSongIdReturnsOutermost ==
  /\ loops # << >>
  /\ loops[Len(loops)].reply.finished
  /\ LET frame == loops[Len(loops)]
     IN /\ last' = [op |-> "GetStreamingUrlFromSongId",
                    in |-> frame, eff |-> << >>,
                    ret |-> StreamingUrl(loops[1].reply)]
        /\ replies' = replies (+) SetToBag({frame.reply})
  /\ loops' = SubSeq(loops, 1, Len(loops) - 1)
  /\ UNCHANGED <<access_token_, access_token_secret_, settings, tag_replies,
                 sent>>

\* The innermost nested loop returns once it was told to quit; the function
\* parses its reply and returns.  Nothing deletes the reply.
GetStreamingUrlFromSongIdReturn ==
  /\ loops # << >>
  /\ loops[Len(loops)].reply.finished
  /\ LET frame == loops[Len(loops)]
     IN /\ last' = [op |-> "GetStreamingUrlFromSongId",
                    in |-> frame, eff |-> << >>,
                    ret |-> StreamingUrl(frame.reply)]
        /\ replies' = replies (+) SetToBag({frame.reply})
  /\ loops' = SubSeq(loops, 1, Len(loops) - 1)
  /\ UNCHANGED <<access_token_, access_token_secret_, settings, tag_replies,
                 sent>>

----------------------------------------------------------------------------
(* The remote side: what a reply may hold.                                 *)

Dir(path) == [path |-> QStr(path), is_dir |-> QBool(TRUE)]
File(path, mime_type, bytes) ==
  [path |-> QStr(path), is_dir |-> QBool(FALSE), mime_type |-> QStr(mime_type),
   bytes |-> bytes]

\* The entries a listing may hold.
Items ==
  { QMap(Dir(<<"a">>)),
    QMap(File(<<"b.mp3">>, <<"audio", "mpeg">>, QNum(0, 100))),
    \* a file of 2^31 + 5 bytes
    QMap(File(<<"a", "c.ogg">>, <<"audio", "ogg">>, QNum(1, 5))),
    QMap(File(<<"v.mp4">>, <<"video", "mp4">>, QNum(0, 7))),
    QMap(File(<<"U.MP3">>, <<"Audio", "MPEG">>, QNum(0, 8))),
    QMap(File(<<"p.mp3">>, <<"audio", "mpeg; charset=binary">>, QNum(0, 9))),
    \* no mime_type
    QMap([path |-> QStr(<<"n">>), is_dir |-> QBool(FALSE)]) }

RECURSIVE SeqsUpTo(_, _)
SeqsUpTo(S, n) ==
  IF n = 0 THEN {<< >>}
  ELSE LET shorter == SeqsUpTo(S, n - 1)
       IN shorter \cup {Append(s, x) : s \in shorter, x \in S}

Listing(contents) == Json(QMap([contents |-> QList(contents)]))
ErrorDocument == Json(QMap([error |-> QStr(<<"Unauthorized">>)]))

\* A failed or malformed reply, an error document, a listing.
ListBodies ==
  {Malformed, ErrorDocument}
    \cup {Listing(l) : l \in SeqsUpTo(Items, MaxEntries)}

MediaBodies ==
  {Malformed, ErrorDocument,
   Json(QMap([url |-> QStr(<<"https:", "", "dl", "1">>)])),
   Json(QMap([url |-> QStr(<<"https:", "", "dl", "2">>)]))}

\* The dropbox: URLs the player may ask for.
SongUrls == {[scheme |-> "dropbox", path |-> <<"b.mp3">>],
             [scheme |-> "dropbox", path |-> <<"a", "c.ogg">>]}

Authenticators ==
  {[access_token |-> p[1], access_token_secret |-> p[2], name |-> n] :
     p \in CredPairs, n \in DisplayNames}

\* A remote tree: the listing of each directory.
Tree ==
  (EmptyString :>
     <<QMap(Dir(<<"a">>)),
       QMap(File(<<"b.mp3">>, <<"audio", "mpeg">>, QNum(0, 100)))>>)
  @@ (<<"a">> :>
     <<QMap(File(<<"a", "c.ogg">>, <<"audio", "ogg">>, QNum(1, 5))),
       QMap(File(<<"a", "v.mp4">>, <<"video", "mp4">>, QNum(0, 7)))>>)

\* What the remote may answer to a listing of path: the directory's
\* contents, or a failure.
TreeBodies(path) ==
  {Malformed, ErrorDocument}
    \cup (IF path \in DOMAIN Tree THEN {Listing(Tree[path])} ELSE {})

PendingReplies(slot) == {r \in BagToSet(replies) : r.slot = slot /\ ~r.finished}
PendingTagReplies == {t \in BagToSet(tag_replies) : ~t.finished}

Calls == LET keys == {k \in BagToSet(sent) : k[1] = "call"}
         IN BagCardinality([k \in keys |-> sent[k]])

----------------------------------------------------------------------------
(* The service against the remote tree.  The entry points are called at    *)
(* most MaxStarts times; every reply may complete at any time.             *)

Completion ==
  \/ \E r \in PendingReplies("RequestFileListFinished") :
       \E b \in TreeBodies(r.req.url.path) : RequestFileListFinished(r, b)
  \/ \E r \in PendingReplies("FetchContentUrlFinished") :
       \E b \in MediaBodies : FetchContentUrlFinished(r, b)
  \/ \E t \in PendingTagReplies : ReadTagsFinished(t)
  \/ \E k \in DOMAIN loops : \E b \in MediaBodies : WaitForSignalQuit(k, b)
  \/ GetStreamingUrlFromSongIdReturn

Next ==
  \/ Calls < MaxStarts /\ Connect
  \/ \E a \in Authenticators : Calls < MaxStarts /\ AuthenticationFinished(a)
  \/ \E u \in SongUrls : Calls < MaxStarts /\ GetStreamingUrlFromSongIdEnter(u)
  \/ Completion

Spec == Init /\ [][Next]_vars

----------------------------------------------------------------------------
(* One walk of the remote tree: the entry points are called at most        *)
(* MaxWalks times, every reply that was issued completes, and a nested     *)
(* loop that was told to quit returns.                                     *)

NextWalk ==
  \/ Calls < MaxWalks /\ Connect
  \/ \E a \in Authenticators : Calls < MaxWalks /\ AuthenticationFinished(a)
  \/ \E u \in SongUrls : Calls < MaxWalks /\ GetStreamingUrlFromSongIdEnter(u)
  \/ Completion

FairWalk == Init /\ [][NextWalk]_vars /\ WF_vars(Completion)

----------------------------------------------------------------------------
(* Lookups during a walk: Connect() is called at most once and             *)
(* GetStreamingUrlFromSongId at most MaxLookups times, also from inside a  *)
(* nested loop; every reply that was issued completes.                     *)

Lookups == CopiesIn(<<"call", <<"GetStreamingUrlFromSongId:WaitForSignal">>>>, sent)

\* The requests of the walk are answered from the tree and with a
\* temporary URL; the awaited requests are answered with any body.
TreeListing(path) ==
  IF path \in DOMAIN Tree THEN {Listing(Tree[path])} ELSE {}
TemporaryUrls == {Json(QMap([url |-> QStr(<<"https:", "", "dl", "1">>)]))}

Answers ==
  \/ \E r \in PendingReplies("RequestFileListFinished") :
       \E b \in TreeListing(r.req.url.path) : RequestFileListFinished(r, b)
  \/ \E r \in PendingReplies("FetchContentUrlFinished") :
       \E b \in TemporaryUrls : FetchContentUrlFinished(r, b)
  \/ \E t \in PendingTagReplies : ReadTagsFinished(t)
  \/ \E k \in DOMAIN loops : \E b \in MediaBodies : WaitForSignalQuit(k, b)
  \/ GetStreamingUrlFromSongIdReturn

NextLookups ==
  \/ CopiesIn(<<"call", <<"Connect">>>>, sent) = 0 /\ Connect
  \/ \E u \in SongUrls :
       Lookups < MaxLookups /\ GetStreamingUrlFromSongIdEnter(u)
  \/ Answers

FairLookups == Init /\ [][NextLookups]_vars /\ WF_vars(Answers)

----------------------------------------------------------------------------
(* The listing stage against an arbitrary remote: a listing reply may hold *)
(* any body.  At most MaxListings replies are handled.                     *)

Handled ==
  LET keys == {k \in BagToSet(sent) : k[1] = "list"}
  IN BagCardinality([k \in keys |-> sent[k]])
       - BagCardinality([r \in PendingReplies("RequestFileListFinished")
                           |-> replies[r]])

NextListing ==
  \/ Calls < MaxListings /\ Connect
  \/ \E a \in Authenticators : Calls < MaxListings /\ AuthenticationFinished(a)
  \/ \E r \in PendingReplies("RequestFileListFinished") :
       \E b \in ListBodies : Handled < MaxListings /\ RequestFileListFinished(r, b)

SpecListing == Init /\ [][NextListing]_vars

----------------------------------------------------------------------------
(* Reading the effects of the last slot.                                   *)

IsSend(e) == e.e = "send"
Sends(eff) == SelectSeq(eff, IsSend)
IsListing(e) ==
  e.e = "send" /\ e.req.verb = "GET" /\ e.req.url.endpoint = kMetadataEndpoint
IsFetch(e) ==
  e.e = "send" /\ e.req.verb = "POST" /\ e.req.url.endpoint = kMediaEndpoint
IsLog(e) == e.e = "qLog"
IsTagRead(e) == e.e = "ReadCloudFile"
IsDialog(e) == e.e = "ShowSettingsDialog"
IsNotification(e) == e.e = "emit"

RECURSIVE RequestPaths(_)
RequestPaths(sends) ==
  IF sends = << >> THEN << >>
  ELSE <<Head(sends).req.url.path>> \o RequestPaths(Tail(sends))

RECURSIVE PathsOf(_)
PathsOf(entries) ==
  IF entries = << >> THEN << >>
  ELSE <<PathOf(Head(entries))>> \o PathsOf(Tail(entries))

\* The position of the only effect of eff that satisfies Is, or 0.
Position(eff, Is(_)) ==
  LET at == {k \in 1..Len(eff) : Is(eff[k])}
  IN IF Cardinality(at) = 1 THEN CHOOSE k \in at : TRUE ELSE 0

----------------------------------------------------------------------------
(* C1.  Connect(): with credentials it issues exactly one listing request, *)
(* for the root path, and does not ask for the credential-entry flow;      *)
(* without credentials it asks the host for the credential-entry flow and  *)
(* issues no network request.                                              *)

C1_Connect ==
  last.op = "Connect" =>
    IF access_token_ # ""
      THEN /\ Len(Sends(last.eff)) = 1
           /\ IsListing(Sends(last.eff)[1])
           /\ Sends(last.eff)[1].req.url.path = EmptyString
           /\ BagIn(Reply(Sends(last.eff)[1]), replies)
           /\ SelectSeq(last.eff, IsDialog) = << >>
      ELSE /\ Len(SelectSeq(last.eff, IsDialog)) = 1
           /\ Sends(last.eff) = << >>
           /\ SelectSeq(last.eff, IsTagRead) = << >>

C1_Witness ==
  /\ last.op = "Connect"
  /\ access_token_ = "t1"
  /\ Len(Sends(last.eff)) = 1

----------------------------------------------------------------------------
(* C2.  After AuthenticationFinished, for every token pair the             *)
(* authenticator delivers, the settings hold the new pair, the members     *)
(* equal it, and has_credentials() is true.                                *)

C2_AuthenticatedHasCredentials ==
  last.op = "AuthenticationFinished" =>
    /\ settings["access_token"] = last.in.access_token
    /\ settings["access_token_secret"] = last.in.access_token_secret
    /\ access_token_ = settings["access_token"]
    /\ access_token_secret_ = settings["access_token_secret"]
    /\ has_credentials

----------------------------------------------------------------------------
(* C3.  For every listing response RequestFileListFinished handles, the    *)
(* listing requests it issues are, in order, one for every entry with      *)
(* is_dir = true, each for that entry's path; no listing request is issued *)
(* for an entry with is_dir = false.                                       *)

C3_OneListingPerDirectory ==
  last.op = "RequestFileListFinished" =>
    RequestPaths(SelectSeq(last.eff, IsListing))
      = PathsOf(SelectSeq(EntriesOf(last.in.body), IsDirEntry))

C3_Witness ==
  /\ last.op = "RequestFileListFinished"
  /\ last.in.body
       = Listing(<<QMap(Dir(<<"a">>)),
                   QMap(File(<<"b.mp3">>, <<"audio", "mpeg">>, QNum(0, 100)))>>)
  /\ RequestPaths(SelectSeq(last.eff, IsListing)) = <<(<<"a">>)>>

----------------------------------------------------------------------------
(* C4.  For the entries with is_dir = false of a handled listing response, *)
(* the content-fetch requests issued are, in order, one for every entry    *)
(* whose MIME type is exactly audio/ogg or audio/mpeg, each for that       *)
(* entry's path; every other entry causes no request and no log entry.     *)

RECURSIVE LoggedPaths(_)
LoggedPaths(logs) ==
  IF logs = << >> THEN << >>
  ELSE <<Head(logs).msg[2]>> \o LoggedPaths(Tail(logs))

C4_FetchIffSupportedMimeType ==
  last.op = "RequestFileListFinished" =>
    LET audio == PathsOf(SelectSeq(EntriesOf(last.in.body), IsAudioEntry))
    IN /\ RequestPaths(SelectSeq(last.eff, IsFetch)) = audio
       /\ LoggedPaths(SelectSeq(last.eff, IsLog)) = audio
       /\ Len(Sends(last.eff))
            = Len(SelectSeq(last.eff, IsListing)) + Len(audio)

C4_Witness ==
  /\ last.op = "RequestFileListFinished"
  /\ last.in.body
       = Listing(<<QMap(File(<<"v.mp4">>, <<"video", "mp4">>, QNum(0, 7))),
                   QMap(File(<<"b.mp3">>, <<"audio", "mpeg">>, QNum(0, 100)))>>)
  /\ RequestPaths(SelectSeq(last.eff, IsFetch)) = <<(<<"b.mp3">>)>>

----------------------------------------------------------------------------
(* C5.  AuthenticationFinished persists the token, the secret and the      *)
(* display name before it emits Connected, and emits Connected before it   *)
(* issues the root listing request; it emits exactly one notification and  *)
(* issues exactly one request, the root listing, signed with the new pair. *)

IsSetToken(e) == e.e = "setValue" /\ e.key = "access_token"
IsSetSecret(e) == e.e = "setValue" /\ e.key = "access_token_secret"
IsSetName(e) == e.e = "setValue" /\ e.key = "name"

C5_PersistNotifyList ==
  last.op = "AuthenticationFinished" =>
    LET eff == last.eff
        token == Position(eff, IsSetToken)
        secret == Position(eff, IsSetSecret)
        name == Position(eff, IsSetName)
        connected == Position(eff, IsNotification)
        listing == Position(eff, IsSend)
    IN /\ token > 0 /\ secret > 0 /\ name > 0 /\ connected > 0 /\ listing > 0
       /\ token < connected /\ secret < connected /\ name < connected
       /\ connected < listing
       /\ eff[token].value = last.in.access_token
       /\ eff[secret].value = last.in.access_token_secret
       /\ eff[name].value = last.in.name
       /\ eff[connected].signal = "Connected"
       /\ IsListing(eff[listing])
       /\ eff[listing].req.url.path = EmptyString
       /\ eff[listing].req.Authorization
            = DropboxAuthenticator_GenerateAuthorisationHeader(
                last.in.access_token, last.in.access_token_secret)
       /\ settings = [access_token |-> last.in.access_token,
                      access_token_secret |-> last.in.access_token_secret,
                      name |-> last.in.name]

C5_Witness ==
  /\ last.op = "AuthenticationFinished"
  /\ last.in.access_token = "t2"
  /\ settings["access_token"] = "t2"
  /\ Len(last.eff) = 6

----------------------------------------------------------------------------
(* C6.  GetStreamingUrlFromSongId(url) issues exactly one content-fetch    *)
(* request, for url's path; it returns only after that reply has finished, *)
(* with the url field of that reply's response (the empty URL when there   *)
(* is none); no tag-read request is issued for it.                         *)

\* The url field of a response, read off the JSON itself.
UrlOf(body) ==
  IF /\ body.wellformed
     /\ body.json.type = "Map"
     /\ "url" \in DOMAIN body.json.v
     /\ body.json.v["url"].type = "String"
  THEN body.json.v["url"].v ELSE EmptyString

C6_BlockingLookup ==
  /\ last.op = "GetStreamingUrlFromSongId:WaitForSignal" =>
       /\ Len(last.eff) = 1
       /\ IsFetch(last.eff[1])
       /\ last.eff[1].req.url.path = last.in.url.path
       /\ loops # << >>
       /\ loops[Len(loops)].reply = Reply(last.eff[1])
  /\ last.op = "QEventLoop::quit" => last.eff = << >>
  /\ last.op = "GetStreamingUrlFromSongId" =>
       /\ last.in.reply.finished
       /\ last.in.reply.req.verb = "POST"
       /\ last.in.reply.req.url
            = [endpoint |-> kMediaEndpoint, path |-> last.in.url.path]
       /\ last.ret = UrlOf(last.in.reply.body)
       /\ last.eff = << >>
  /\ \A r \in BagToSet(replies) : r.slot = "QEventLoop::quit" => r.finished
  /\ \A k \in DOMAIN loops :
       loops[k].reply.req.url
         = [endpoint |-> kMediaEndpoint, path |-> loops[k].url.path]

C6_Witness ==
  /\ last.op = "GetStreamingUrlFromSongId"
  /\ last.in.url.path = <<"b.mp3">>
  /\ last.ret = <<"https:", "", "dl", "1">>

----------------------------------------------------------------------------
(* C7.  Each completion of a content-fetch of the walk issues exactly one  *)
(* tag-read request, with the url field of its own response, the last path *)
(* component of the listing entry that triggered the fetch, and that       *)
(* entry's bytes and mime_type.                                            *)

LastComponent(path) ==
  IF Len(path) = 0 THEN EmptyString ELSE SubSeq(path, Len(path), Len(path))
\* An int and a JSON number that are the same number.
SameNumber(i, q) == q.type = "LongLong" /\ q.hi = 0 /\ q.lo = i

\* All of it but the size.
C7_TagReadOfOwnEntry ==
  last.op = "FetchContentUrlFinished" =>
    LET reads == SelectSeq(last.eff, IsTagRead)
        entry == last.in.reply.data
    IN /\ Len(reads) = 1
       /\ Sends(last.eff) = << >>
       /\ reads[1].url = UrlOf(last.in.body)
       /\ reads[1].filename = LastComponent(entry["path"].v)
       /\ reads[1].mime_type = entry["mime_type"].v
       /\ BagIn(TagReply(reads[1]), tag_replies)

C7_TagReadArguments ==
  /\ C7_TagReadOfOwnEntry
  /\ last.op = "FetchContentUrlFinished" =>
       SameNumber(SelectSeq(last.eff, IsTagRead)[1].size,
                  last.in.reply.data["bytes"])

----------------------------------------------------------------------------
(* C8.  Every listing and content-fetch request carries an Authorization   *)
(* header built from the credential pair that is current when the request  *)
(* is issued: no request lacks the header, and a request issued after a    *)
(* re-authentication does not carry the header of the replaced pair.       *)

C8_SignedWithCurrentPair ==
  /\ \A k \in 1..Len(Sends(last.eff)) :
       /\ "Authorization" \in DOMAIN Sends(last.eff)[k].req
       /\ Sends(last.eff)[k].req.Authorization
            = DropboxAuthenticator_GenerateAuthorisationHeader(
                access_token_, access_token_secret_)
  /\ \A r \in BagToSet(replies) : "Authorization" \in DOMAIN r.req
  /\ \A k \in DOMAIN loops : "Authorization" \in DOMAIN loops[k].reply.req

\* A listing signed with the replaced pair completes after a
\* re-authentication: its follow-ups carry the new pair.
C8_Witness ==
  /\ last.op = "RequestFileListFinished"
  /\ last.in.reply.req.Authorization
       = DropboxAuthenticator_GenerateAuthorisationHeader("t1", "s1")
  /\ access_token_ = "t2"
  /\ Len(Sends(last.eff)) = 2

----------------------------------------------------------------------------
(* C9.  The header GenerateAuthorisationHeader builds from a non-empty     *)
(* pair differs from the header built from the empty pair.                 *)

----------------------------------------------------------------------------
(* C10.  After a traversal is started on the remote tree, and with every   *)
(* issued request completing, a state with no request in flight is         *)
(* reached, and there every directory of the tree has been listed, every   *)
(* file of a supported type has had a content-fetch issued, and every      *)
(* content-fetch has been followed by a tag-read.                          *)

Copies(kind, path) == CopiesIn(<<kind, path>>, sent)
Started == Copies("list", EmptyString) > 0
Quiescent ==
  /\ PendingReplies("RequestFileListFinished") = {}
  /\ PendingReplies("FetchContentUrlFinished") = {}
  /\ PendingTagReplies = {}
  /\ loops = << >>

TreeCovered ==
  \A d \in DOMAIN Tree :
    /\ Copies("list", d) > 0
    /\ \A k \in DOMAIN Tree[d] :
         IsAudioEntry(Tree[d][k]) =>
           /\ Copies("fetch", PathOf(Tree[d][k])) > 0
           /\ Copies("tags", LastComponent(PathOf(Tree[d][k])))
                = Copies("fetch", PathOf(Tree[d][k]))

\* The claim as stated: it fails when a listing fails, since the
\* directories below it are never listed.
C10_QuiescentCoversTree == (Started /\ Quiescent) => TreeCovered

\* What the handled listings showed has been followed up: a listing for
\* every directory entry, a content-fetch for every file of a supported
\* type, a tag-read for every content-fetch.
ShownCovered ==
  \A k \in BagToSet(sent) :
    /\ k[1] = "dir" => Copies("list", k[2]) = sent[k]
    /\ k[1] = "file" =>
         /\ Copies("fetch", k[2]) = sent[k]
         /\ Copies("tags", LastComponent(k[2])) = sent[k]

\* C10, amended: the state with no request in flight is reached, and there
\* every directory and every supported file that a handled listing showed
\* has been followed up.
C10_WalkCompletes == Started ~> (Quiescent /\ ShownCovered)

\* A walk in which no request failed has covered the tree.
C10_Witness == Started /\ Quiescent /\ ShownCovered /\ TreeCovered

----------------------------------------------------------------------------
(* C11.  In a traversal started by a single Connect() on the remote tree,  *)
(* no path is listed or fetched twice; and once every listing of the tree  *)
(* has been answered with its contents, the listing requests issued are as *)
(* many as the directories (root included) and the content-fetch requests  *)
(* as many as the files of a supported type, in any order of completions.  *)

Total(kind) ==
  LET keys == {k \in BagToSet(sent) : k[1] = kind}
  IN BagCardinality([k \in keys |-> sent[k]])

SingleConnect == Calls = 1 /\ Copies("call", <<"Connect">>) = 1

\* The supported files of the tree, as <<directory, position>>.
TreeFiles ==
  {dk \in UNION {{<<d, k>> : k \in DOMAIN Tree[d]} : d \in DOMAIN Tree} :
     IsAudioEntry(Tree[dk[1]][dk[2]])}

\* Every entry of the tree has been shown by a handled listing.
AllShown ==
  \A d \in DOMAIN Tree : \A k \in DOMAIN Tree[d] :
    /\ IsDirEntry(Tree[d][k]) => Copies("dir", PathOf(Tree[d][k])) > 0
    /\ IsAudioEntry(Tree[d][k]) => Copies("file", PathOf(Tree[d][k])) > 0

C11_ExactlyOnceFanOut ==
  SingleConnect =>
    /\ \A k \in BagToSet(sent) : k[1] \in {"list", "fetch"} => sent[k] = 1
    /\ Total("list") <= Cardinality(DOMAIN Tree)
    /\ Total("fetch") <= Cardinality(TreeFiles)
    /\ AllShown =>
         /\ Total("list") = Cardinality(DOMAIN Tree)
         /\ Total("fetch") = Cardinality(TreeFiles)

C11_Witness ==
  /\ SingleConnect /\ AllShown /\ Quiescent
  /\ Total("list") = 2 /\ Total("fetch") = 2

----------------------------------------------------------------------------
(* C12.  A listing or content-fetch request, the one issued by             *)
(* GetStreamingUrlFromSongId included, is issued only when                 *)
(* has_credentials() is true.                                              *)

C12_RequestsOnlyWithCredentials ==
  Sends(last.eff) # << >> => has_credentials

\* The requests Connect() issues are guarded.
C12_ConnectIsGuarded ==
  (last.op = "Connect" /\ Sends(last.eff) # << >>) => has_credentials

----------------------------------------------------------------------------
(* C13.  Every completion handler deletes the request object it completes, *)
(* exactly once: the listing reply, the content-fetch reply, the tag-read  *)
(* reply and the reply GetStreamingUrlFromSongId waited for; so once no    *)
(* request is in flight no completed request object remains undeleted.     *)

IsDelete(e) == e.e = "deleteLater"
Completions ==
  {"RequestFileListFinished", "FetchContentUrlFinished", "ReadTagsFinished"}

C13_CompletedObjectsDeleted ==
  /\ last.op \in Completions =>
       /\ Len(SelectSeq(last.eff, IsDelete)) = 1
       /\ SelectSeq(last.eff, IsDelete)[1].object = last.in.reply
  /\ last.op = "GetStreamingUrlFromSongId" => ~BagIn(last.in.reply, replies)
  /\ Quiescent =>
       /\ \A r \in BagToSet(replies) : ~r.finished
       /\ \A t \in BagToSet(tag_replies) : ~t.finished

\* The replies of the network requests of the walk are deleted by their
\* handlers, exactly once.
C13_WalkRepliesDeleted ==
  last.op \in {"RequestFileListFinished", "FetchContentUrlFinished"} =>
    /\ Len(SelectSeq(last.eff, IsDelete)) = 1
    /\ SelectSeq(last.eff, IsDelete)[1].object = last.in.reply
    /\ \A r \in BagToSet(replies) :
         r.slot \in Completions => ~r.finished

----------------------------------------------------------------------------
(* C14.  While a caller is blocked in GetStreamingUrlFromSongId, the       *)
(* completions of the other listing and content-fetch requests in flight   *)
(* are still handled; whatever the interleaving, a nested second call      *)
(* included, each call returns the url of the response to its own request; *)
(* and with every request completing, every blocked call returns.          *)

C14_OwnUrl ==
  last.op = "GetStreamingUrlFromSongId" =>
    /\ last.in.reply.finished
    /\ last.in.reply.req = FetchContentUrl(last.in.url)
    /\ last.ret = UrlOf(last.in.reply.body)

C14_OthersHandled ==
  loops # << >> =>
    /\ \A r \in PendingReplies("RequestFileListFinished") :
         \A b \in TreeBodies(r.req.url.path) :
           ENABLED RequestFileListFinished(r, b)
    /\ \A r \in PendingReplies("FetchContentUrlFinished") :
         \A b \in MediaBodies : ENABLED FetchContentUrlFinished(r, b)

----------------------------------------------------------------------------
(* C15.  A listing reply that failed, is not JSON or holds no contents     *)
(* list is handled as an empty listing: the handler only deletes the       *)
(* reply; it issues no listing, content-fetch or tag-read request, does    *)
(* not ask again, signals nothing, and leaves the credentials, the         *)
(* settings and every other request in flight as they were.                *)

NoContents(body) ==
  ~(/\ body.wellformed
    /\ body.json.type = "Map"
    /\ "contents" \in DOMAIN body.json.v
    /\ body.json.v["contents"].type = "List")

FailedListingHandled ==
  (last'.op = "RequestFileListFinished" /\ NoContents(last'.in.body)) =>
    /\ last'.eff = <<deleteLater(last'.in.reply)>>
    /\ BagIn(last'.in.reply, replies)
    /\ replies' = replies (-) SetToBag({last'.in.reply})
    /\ UNCHANGED <<access_token_, access_token_secret_, settings, tag_replies,
                   loops, sent>>

C15_FailedListingIsEmpty == [][FailedListingHandled]_vars

\* A listing of directory a has failed while the walk has a content-fetch
\* and another listing in flight.
C15_Witness ==
  /\ last.op = "RequestFileListFinished"
  /\ NoContents(last.in.body)
  /\ last.in.reply.req.url.path = <<"a">>
  /\ last.eff = <<deleteLater(last.in.reply)>>
  /\ PendingReplies("FetchContentUrlFinished") # {}
  /\ PendingReplies("RequestFileListFinished") # {}

----------------------------------------------------------------------------
(* C16.  The in-memory pair (access_token_, access_token_secret_) is       *)
(* changed only by AuthenticationFinished, which replaces both components  *)
(* by the pair the authenticator delivers; every other slot leaves it      *)
(* unchanged; between callbacks the in-memory pair equals the persisted    *)
(* pair, and no request is signed with the token of one authentication and *)
(* the secret of another.                                                  *)

Pair == <<access_token_, access_token_secret_>>
Persisted == <<settings["access_token"], settings["access_token_secret"]>>

PairIsWhole ==
  /\ Pair = Persisted
  /\ Pair \in StoredPairs \cup CredPairs
  /\ \A k \in DOMAIN Sends(last.eff) :
       \E p \in StoredPairs \cup CredPairs :
         Sends(last.eff)[k].req.Authorization
           = DropboxAuthenticator_GenerateAuthorisationHeader(p[1], p[2])

PairFrame ==
  /\ last'.op = "AuthenticationFinished" =>
       Pair' = <<last'.in.access_token, last'.in.access_token_secret>>
  /\ last'.op # "AuthenticationFinished" => Pair' = Pair /\ Persisted' = Persisted

C16_CredentialFrame == [](PairIsWhole) /\ [][PairFrame]_vars

\* A re-authentication has replaced the stored pair, while requests signed
\* with the old pair are still in flight.
C16_Witness ==
  /\ last.op = "AuthenticationFinished"
  /\ Pair = <<"t2", "s2">>
  /\ Persisted = Pair
  /\ \E r \in PendingReplies("RequestFileListFinished") :
       r.req.Authorization
         = DropboxAuthenticator_GenerateAuthorisationHeader("t1", "s1")

----------------------------------------------------------------------------
(* The walk of a remote tree with a cycle: the listing of directory a      *)
(* holds a itself and its ancestor, the root.  A listing may also fail.    *)
(* At most MaxRounds listing replies are handled.                          *)

CyclicTree ==
  (EmptyString :> <<QMap(Dir(<<"a">>))>>)
  @@ (<<"a">> :>
     <<QMap(Dir(<<"a">>)),
       QMap(Dir(EmptyString)),
       QMap(File(<<"a", "c.ogg">>, <<"audio", "ogg">>, QNum(0, 5)))>>)

CyclicBodies(path) ==
  {Malformed} \cup (IF path \in DOMAIN CyclicTree
                      THEN {Listing(CyclicTree[path])} ELSE {})

NextCycle ==
  \/ Calls = 0 /\ Connect
  \/ \E r \in PendingReplies("RequestFileListFinished") :
       \E b \in CyclicBodies(r.req.url.path) :
         Handled < MaxRounds /\ RequestFileListFinished(r, b)
  \/ \E r \in PendingReplies("FetchContentUrlFinished") :
       \E b \in TemporaryUrls : FetchContentUrlFinished(r, b)
  \/ \E t \in PendingTagReplies : ReadTagsFinished(t)

SpecCycle == Init /\ [][NextCycle]_vars

----------------------------------------------------------------------------
(* C17.  The walk keeps no visited set: a path is listed again every time  *)
(* it appears as an is_dir entry in a listing response.  On a tree whose   *)
(* listing of a directory holds that directory or an ancestor, the listing *)
(* requests issued keep growing and, as long as the listings are answered  *)
(* with their contents, a listing request is always in flight.             *)

PendingOf(path) ==
  LET rs == {r \in PendingReplies("RequestFileListFinished") :
               r.req.url.path = path}
  IN BagCardinality([r \in rs |-> replies[r]])
HandledOf(path) == Copies("list", path) - PendingOf(path)

\* How often directory d's listing shows path as an is_dir entry.
ShowsDir(d, path) ==
  Cardinality({k \in DOMAIN CyclicTree[d] :
                 /\ IsDirEntry(CyclicTree[d][k])
                 /\ PathOf(CyclicTree[d][k]) = path})

RECURSIVE ShownBy(_, _)
ShownBy(dirs, path) ==
  IF dirs = {} THEN 0
  ELSE LET d == CHOOSE d \in dirs : TRUE
       IN HandledOf(d) * ShowsDir(d, path) + ShownBy(dirs \ {d}, path)

\* Every listing handled so far was answered with its contents.
NoListingFailed ==
  \A path \in DOMAIN CyclicTree :
    Copies("dir", path) = ShownBy(DOMAIN CyclicTree, path)

C17_NoCycleProtection ==
  Started =>
    /\ \A path \in DOMAIN CyclicTree :
         Copies("list", path)
           = Copies("dir", path) + (IF path = EmptyString THEN 1 ELSE 0)
    /\ NoListingFailed =>
         /\ PendingReplies("RequestFileListFinished") # {}
         /\ Total("list") > Handled
         /\ ~Quiescent

\* Directory a has been listed as often as the bound on handled listings
\* allows, and listings are still in flight.
C17_Witness ==
  /\ Started /\ NoListingFailed
  /\ Handled = MaxRounds
  /\ Copies("list", <<"a">>) >= MaxRounds
  /\ Copies("list", EmptyString) > 1
  /\ PendingReplies("RequestFileListFinished") # {}

----------------------------------------------------------------------------
(* C18.  A later entry point neither cancels nor deduplicates a traversal: *)
(* Connect() or AuthenticationFinished called while a traversal is in      *)
(* flight adds one more root listing and removes nothing; what is in       *)
(* flight still completes and spawns its follow-ups, so every directory of *)
(* the tree is listed once per started traversal and every supported file  *)
(* is fetched and tag-read once per started traversal.                     *)

Walks == Copies("list", EmptyString)

StartAddsAWalk ==
  last'.op \in {"Connect", "AuthenticationFinished"} =>
    /\ replies' = replies (+) NewReplies(last'.eff)
    /\ UNCHANGED <<tag_replies, loops>>
    /\ (last'.op = "AuthenticationFinished" \/ has_credentials') =>
         /\ Len(Sends(last'.eff)) = 1
         /\ IsListing(Sends(last'.eff)[1])
         /\ Sends(last'.eff)[1].req.url.path = EmptyString
         /\ Walks' = Walks + 1

\* Every listing of the tree handled so far was answered with its contents.
TreeAnswered ==
  \A d \in DOMAIN Tree : \A k \in DOMAIN Tree[d] :
    /\ IsDirEntry(Tree[d][k]) =>
         Copies("dir", PathOf(Tree[d][k])) = HandledOf(d)
    /\ IsAudioEntry(Tree[d][k]) =>
         Copies("file", PathOf(Tree[d][k])) = HandledOf(d)

OncePerWalk ==
  /\ \A d \in DOMAIN Tree : \A k \in DOMAIN Tree[d] :
       /\ IsDirEntry(Tree[d][k]) =>
            Copies("list", PathOf(Tree[d][k])) = Copies("dir", PathOf(Tree[d][k]))
       /\ IsAudioEntry(Tree[d][k]) =>
            Copies("fetch", PathOf(Tree[d][k]))
              = Copies("file", PathOf(Tree[d][k]))
  /\ (Quiescent /\ TreeAnswered) =>
       \A d \in DOMAIN Tree :
         /\ Copies("list", d) = Walks
         /\ \A k \in DOMAIN Tree[d] :
              IsAudioEntry(Tree[d][k]) =>
                /\ Copies("fetch", PathOf(Tree[d][k])) = Walks
                /\ Copies("tags", LastComponent(PathOf(Tree[d][k]))) = Walks

C18_NoCancellation == [](OncePerWalk) /\ [][StartAddsAWalk]_vars

\* Connect() has been called while the listing of directory a and a
\* content-fetch of an earlier traversal were in flight.
C18_Witness ==
  /\ last.op = "Connect"
  /\ Walks = 2
  /\ PendingOf(EmptyString) = 1
  /\ PendingOf(<<"a">>) = 1
  /\ PendingReplies("FetchContentUrlFinished") # {}

----------------------------------------------------------------------------
(* C19.  A content-fetch issued by the walk leads to exactly one tag-read  *)
(* request when it completes, also when the response is a failure, is not  *)
(* JSON or has no url field: the tag-read is then issued with an empty URL *)
(* and with the file name, size and MIME type of the listing entry, and    *)
(* the walk is not stopped by it.                                          *)

NoUrl(body) ==
  ~(/\ body.wellformed
    /\ body.json.type = "Map"
    /\ "url" \in DOMAIN body.json.v)

\* All of it but the size.
C19_TagReadDespiteFailure ==
  (last.op = "FetchContentUrlFinished" /\ NoUrl(last.in.body)) =>
    LET reads == SelectSeq(last.eff, IsTagRead)
        entry == last.in.reply.data
    IN /\ Len(reads) = 1
       /\ reads[1].url = EmptyString
       /\ reads[1].filename = LastComponent(entry["path"].v)
       /\ reads[1].mime_type = entry["mime_type"].v
       /\ BagIn(TagReply(reads[1]), tag_replies)
       /\ Sends(last.eff) = << >>
       /\ SelectSeq(last.eff, IsNotification) = << >>
       /\ SelectSeq(last.eff, IsDialog) = << >>

C19_FailedFetchStillReadsTags ==
  /\ C19_TagReadDespiteFailure
  /\ (last.op = "FetchContentUrlFinished" /\ NoUrl(last.in.body)) =>
       SameNumber(SelectSeq(last.eff, IsTagRead)[1].size,
                  last.in.reply.data["bytes"])

====
